---------------------------- MODULE Spec2Model ----------------------------
(***************************************************************************)
(* A model of the trending aggregation and ranking engine of               *)
(* github-trending-report (src/src/dataProcessor.js, with its              *)
(* configuration and its callers).                                         *)
(*                                                                         *)
(* JavaScript strings that the code inspects character by character (an    *)
(* entity name, a stars value) are sequences of one-character strings.     *)
(* A description is a sequence of words (see simpleTranslate).  A value    *)
(* whose JavaScript type matters is a record [t |-> type, v |-> chars].    *)
(***************************************************************************)
EXTENDS Integers, Sequences, FiniteSets, TLC

VARIABLES
  historyData,   \* calculateRanking: the argument of the current call
  repoMap,       \* calculateRanking: its Map, in insertion order
  ranking,       \* calculateRanking: what the last call returned
  prevHistory,   \* the argument of the call before the last one
  prevRanking,   \* what the call before the last one returned
  projectSummariesCache,  \* the curated index (module global)
  translationCache,       \* the translation cache in memory (module global)
  openai,        \* config.openai: enabled, and whether an API key is set
  pending,       \* enrichment requests in flight, in dispatch order
  lastCall,      \* the resolver call made last, with what it returned
  files,         \* the snapshot files of the data directory
  now,           \* the current instant: its UTC day, and whether it is past midnight
  cacheFile,     \* translation_cache.json
  payloadFile,   \* ranking_data.js
  pc,            \* generateRankingData: the step it runs next ("idle": not running)
  builds,        \* the number of calls of generateRankingData so far
  rankings,      \* generateRankingData: its three lists
  events,        \* the steps the current build has run, in order
  logs,          \* the console lines of the current build
  loadedFrom,    \* what the cache file was when the current build loaded it
  writeErrors,   \* the files whose writeFileSync failed in the current build
  outcome,       \* how the last build ended, and what it returned
  dataDir,       \* whether the data directory exists
  readDays,      \* the argument of the last call of readHistoryData (0: no call)
  aiCall         \* one call of translateWithOpenAI, followed to its end

rankVars == <<historyData, repoMap, ranking, prevHistory, prevRanking>>
resolverVars == <<projectSummariesCache, translationCache, openai, pending, lastCall>>
diskVars == <<files, now, dataDir, cacheFile, payloadFile>>
buildVars == <<pc, builds, rankings, events, logs, loadedFrom, writeErrors, outcome>>
callVars == <<readDays, aiCall>>
vars == <<rankVars, resolverVars, diskVars, buildVars, callVars>>

-----------------------------------------------------------------------------
(* Generic helpers.                                                        *)

Range(s) == {s[i] : i \in DOMAIN s}

Min(a, b) == IF a <= b THEN a ELSE b

\* Sequences over S of length at most n.
SeqUpTo(S, n) == UNION {[1..k -> S] : k \in 0..n}

-----------------------------------------------------------------------------
(* JavaScript values and the string functions the engine uses.             *)

Str(chars) == [t |-> "str", v |-> chars]
Undefined == [t |-> "undef", v |-> <<>>]

\* A number, v its decimal digits.
Num(digits) == [t |-> "num", v |-> digits]

\* ToBoolean: the empty string, undefined and 0 are falsy.
Truthy(x) ==
  \/ x.t = "str" /\ x.v # <<>>
  \/ x.t = "num" /\ \E i \in DOMAIN x.v : x.v[i] # "0"

\* x || d
OrElse(x, d) == IF Truthy(x) THEN x ELSE d

DigitChars == <<"0", "1", "2", "3", "4", "5", "6", "7", "8", "9">>

IsDigit(c) == \E i \in DOMAIN DigitChars : DigitChars[i] = c

DigitVal(c) == (CHOOSE i \in DOMAIN DigitChars : DigitChars[i] = c) - 1

\* String.prototype.replace(/,/g, ''): every comma removed.
StripCommas(s) == SelectSeq(s, LAMBDA c : c # ",")

\* The longest prefix of s made of digits.
RECURSIVE DigitPrefix(_)
DigitPrefix(s) ==
  IF s = <<>> \/ ~IsDigit(Head(s)) THEN <<>>
  ELSE <<Head(s)>> \o DigitPrefix(Tail(s))

RECURSIVE DigitsValue(_)
DigitsValue(ds) ==
  IF ds = <<>> THEN 0
  ELSE 10 * DigitsValue(SubSeq(ds, 1, Len(ds) - 1)) + DigitVal(ds[Len(ds)])

RECURSIVE SkipSpaces(_)
SkipSpaces(s) == IF s # <<>> /\ Head(s) = " " THEN SkipSpaces(Tail(s)) ELSE s

\* parseInt(s): leading white space skipped, an optional sign, then the longest
\* run of digits; NaN when there is no digit.
ParseIntBody(s) ==
  LET t == SkipSpaces(s)
  IN IF t # <<>> /\ Head(t) \in {"+", "-"} THEN Tail(t) ELSE t

ParseIntIsNaN(s) == DigitPrefix(ParseIntBody(s)) = <<>>

ParseIntValue(s) ==
  LET t == SkipSpaces(s)
      n == DigitsValue(DigitPrefix(ParseIntBody(s)))
  IN IF t # <<>> /\ Head(t) = "-" THEN 0 - n ELSE n

\* parseInt(s) || 0: NaN and 0 are falsy.
ParseIntOrZero(s) == IF ParseIntIsNaN(s) THEN 0 ELSE ParseIntValue(s)

-----------------------------------------------------------------------------
(* Configuration.                                                          *)

\* translateWithOpenAI: the attempts of one call, and the milliseconds an
\* attempt may take.
maxRetries == 2
timeout == 10000

\* config.ranking: the three windows, in days, and the length of a ranking.
week == 7
month == 30
quarter == 90
maxItems == 10

\* simpleTranslate: keywords are tried on a text shorter than this.
KeywordMaxLen == 100

\* simpleTranslate, translateWithCache: a text longer than this gets the marker.
MarkerMinLen == 20

-----------------------------------------------------------------------------
(* calculateRanking.                                                       *)

\* A snapshot entry as JSON.parse returns it.  kind "null" is a null element of
\* the array; a missing field is the empty string or Undefined.
Entry(name, url, description, stars) ==
  [kind |-> "obj", name |-> name, url |-> url, description |-> description,
   stars |-> stars]

NullEntry ==
  [kind |-> "null", name |-> <<>>, url |-> "", description |-> <<>>,
   stars |-> Undefined]

\* One element of historyData: { date, data }.  data is whatever the file
\* parsed to: an array of entries, or something that is no array.
Snapshot(date, isArray, items) ==
  [date |-> date, data |-> [isArray |-> isArray, items |-> items]]

\* A bug calculateRanking might have: the Map outlives the call.
StaleRepoMap == repoMap

\* const repoMap = new Map()
NewRepoMap == <<>>

\* repoMap.has(name) / repoMap.get(name): the position of name's aggregate,
\* 0 when the Map has none.
MapIndex(map, name) ==
  IF \E i \in DOMAIN map : map[i].name = name
  THEN CHOOSE i \in DOMAIN map : map[i].name = name
  ELSE 0

\* The aggregate a name gets when it is first met.
InitialInfo(repo) ==
  [name |-> repo.name, url |-> repo.url, description |-> repo.description,
   stars |-> OrElse(repo.stars, Str(<<"0">>)), count |-> 0, dates |-> <<>>]

\* if (repo.stars) repoInfo.stars = repo.stars
UpdatedStars(info, repo) == IF Truthy(repo.stars) THEN repo.stars ELSE info.stars

\* A bug calculateRanking might have: the day-key is pushed at every occurrence.
UpdatedDatesAlways(info, date) == Append(info.dates, date)

\* if (!repoInfo.dates.includes(date)) repoInfo.dates.push(date)
UpdatedDates(info, date) ==
  IF date \in Range(info.dates) THEN info.dates ELSE Append(info.dates, date)

\* A bug calculateRanking might have: an occurrence is counted only on a day
\* not yet recorded for the entity.
FoldRepoPerDay(map, date, repo) ==
  IF repo.kind = "null" \/ repo.name = <<>> THEN map
  ELSE LET map1 == IF MapIndex(map, repo.name) = 0
                   THEN Append(map, InitialInfo(repo))
                   ELSE map
           i == MapIndex(map1, repo.name)
           info == map1[i]
       IN [map1 EXCEPT ![i] =
             [info EXCEPT !.count = IF date \in Range(info.dates)
                                    THEN info.count ELSE info.count + 1,
                          !.dates = UpdatedDates(info, date),
                          !.stars = UpdatedStars(info, repo)]]

\* The body of the inner loop, for one entry of one snapshot.
FoldRepo(map, date, repo) ==
  IF repo.kind = "null" \/ repo.name = <<>> THEN map
  ELSE LET map1 == IF MapIndex(map, repo.name) = 0
                   THEN Append(map, InitialInfo(repo))
                   ELSE map
           i == MapIndex(map1, repo.name)
           info == map1[i]
       IN [map1 EXCEPT ![i] =
             [info EXCEPT !.count = info.count + 1,
                          !.dates = UpdatedDates(info, date),
                          !.stars = UpdatedStars(info, repo)]]

RECURSIVE FoldData(_, _, _)
FoldData(map, date, items) ==
  IF items = <<>> THEN map
  ELSE FoldData(FoldRepo(map, date, Head(items)), date, Tail(items))

\* The outer loop: a snapshot whose data is no array is skipped.
RECURSIVE FoldHistory(_, _)
FoldHistory(map, history) ==
  IF history = <<>> THEN map
  ELSE LET h == Head(history)
           map1 == IF h.data.isArray THEN FoldData(map, h.date, h.data.items)
                   ELSE map
       IN FoldHistory(map1, Tail(history))

\* parseInt(a.stars.replace(/,/g, '')) || 0
NumericStars(info) == ParseIntOrZero(StripCommas(info.stars.v))

\* A bug calculateRanking might have: the commas are left in, so parseInt
\* stops at the first of them.
CompareRankingNoStrip(a, b) ==
  IF a.count # b.count THEN b.count - a.count
  ELSE ParseIntOrZero(b.stars.v) - ParseIntOrZero(a.stars.v)

\* The comparator handed to Array.prototype.sort.
CompareRanking(a, b) ==
  IF a.count # b.count THEN b.count - a.count
  ELSE NumericStars(b) - NumericStars(a)

\* Array.prototype.sort is stable (ECMAScript 2019): an element goes behind
\* every element that does not sort after it.
RECURSIVE InsertSorted(_, _)
InsertSorted(sorted, x) ==
  IF sorted = <<>> THEN <<x>>
  ELSE IF CompareRanking(Head(sorted), x) <= 0
       THEN <<Head(sorted)>> \o InsertSorted(Tail(sorted), x)
       ELSE <<x>> \o sorted

RECURSIVE SortRanking(_)
SortRanking(list) ==
  IF list = <<>> THEN <<>>
  ELSE InsertSorted(SortRanking(SubSeq(list, 1, Len(list) - 1)), list[Len(list)])

\* A bug calculateRanking might have: the slice is one item short.
SliceTopOneShort(sorted) == SubSeq(sorted, 1, Min(maxItems - 1, Len(sorted)))

\* sorted.slice(0, config.ranking.maxItems)
SliceTop(sorted) == SubSeq(sorted, 1, Min(maxItems, Len(sorted)))

\* What calculateRanking(history) returns.
RankingOf(history) == SliceTop(SortRanking(FoldHistory(NewRepoMap, history)))

\* a.stars.replace is not a function: the stars of the aggregate are no string.
ReplaceThrows(info) == info.stars.t # "str"

\* The comparator reads the stars of two aggregates only when their counts
\* are equal.  An aggregate whose count another one shares can be placed only
\* by a comparison with an aggregate of that count, whatever the order in
\* which the engine compares; that comparison throws a TypeError when the
\* stars of either are no string.
SortThrows(list) ==
  \E i, j \in DOMAIN list :
    i # j /\ list[i].count = list[j].count /\ ReplaceThrows(list[i])

\* calculateRanking(history) throws instead of returning.
RankingThrows(history) == SortThrows(FoldHistory(NewRepoMap, history))

\* The result slot of a call: nothing returned yet, the returned list, or
\* the exception that ended the call.
NoCall == [ret |-> FALSE, threw |-> FALSE, list |-> <<>>]
Returned(list) == [ret |-> TRUE, threw |-> FALSE, list |-> list]
Threw == [ret |-> FALSE, threw |-> TRUE, list |-> <<>>]

\* What a call leaves in the result slot; map is the Map it has built.
RankingResult(map) ==
  IF SortThrows(map) THEN Threw ELSE Returned(SliceTop(SortRanking(map)))

\* A call of calculateRanking on the current argument.  The Map is a local of
\* the call; the variable keeps the last call's Map.
CalculateRanking ==
  /\ repoMap' = FoldHistory(NewRepoMap, historyData)
  /\ ranking' = RankingResult(repoMap')
  /\ prevHistory' = historyData
  /\ prevRanking' = ranking
  /\ UNCHANGED <<historyData, resolverVars, diskVars, buildVars, callVars>>

-----------------------------------------------------------------------------
(* Strings of the resolver.  A name is a sequence of characters.  A text   *)
(* (a description, a summary) is a sequence of words; the empty sequence   *)
(* is the empty string, and stands for undefined and null as well (all     *)
(* three are falsy).  Chinese words are written zh_*.                      *)

UpperChars == <<"A", "B", "X", "Y">>
LowerChars == <<"a", "b", "x", "y">>

LowerChar(c) ==
  IF \E i \in DOMAIN UpperChars : UpperChars[i] = c
  THEN LowerChars[CHOOSE i \in DOMAIN UpperChars : UpperChars[i] = c]
  ELSE c

\* String.prototype.toLowerCase
ToLowerCase(s) == [i \in DOMAIN s |-> LowerChar(s[i])]

\* nameParts.length > 1 for nameParts = projectName.split('/')
HasSlash(s) == "/" \in Range(s)

\* nameParts[nameParts.length - 1]: what follows the last '/'.
RECURSIVE LastPart(_)
LastPart(s) ==
  IF ~HasSlash(s) THEN s
  ELSE LastPart(SubSeq(s, (CHOOSE i \in DOMAIN s :
                             s[i] = "/" /\ \A j \in 1..(i - 1) : s[j] # "/") + 1,
                       Len(s)))

\* The number of characters of a word.
WordLength(w) ==
  CASE w = "zz" -> 2
    [] w = "Web" -> 3
    [] w = "tool" -> 4
    [] w = "pad17" -> 17
    [] w = "pad18" -> 18
    [] w = "pad95" -> 95
    [] OTHER -> 4

\* text.length: the words and the spaces between them.
RECURSIVE TextLength(_)
TextLength(text) ==
  IF text = <<>> THEN 0
  ELSE IF Len(text) = 1 THEN WordLength(text[1])
  ELSE WordLength(Head(text)) + 1 + TextLength(Tail(text))

\* A word in lower case.
LowerWord(w) == IF w = "Web" THEN "web" ELSE w

\* Rows of simpleTranslate's keywordMap, in the table's order: 'ai', 'tool', 'web'.
KeywordMap == <<<<"ai", "zh_ai">>, <<"tool", "zh_tool">>, <<"web", "Web">>>>

\* lowerText.includes(eng)
IncludesKeyword(text, eng) == \E i \in DOMAIN text : LowerWord(text[i]) = eng

\* result.replace(new RegExp(eng, 'gi'), chi)
ReplaceKeyword(result, eng, chi) ==
  [i \in DOMAIN result |-> IF LowerWord(result[i]) = eng THEN chi ELSE result[i]]

\* The loop over the keyword table: a keyword found in the text (lower-cased)
\* is replaced in the result.
RECURSIVE ApplyKeywords(_, _, _)
ApplyKeywords(text, result, table) ==
  IF table = <<>> THEN result
  ELSE ApplyKeywords(text,
                     IF IncludesKeyword(text, Head(table)[1])
                     THEN ReplaceKeyword(result, Head(table)[1], Head(table)[2])
                     ELSE result,
                     Tail(table))

\* The marker glyph put before a long text nothing translated.
Marker == "MARK"

\* The text shown for an entity without a description.
Placeholder == <<"zh_none">>

\* The end of simpleTranslate: `result` is the text after the substitutions.
MarkUntranslated(text, result) ==
  IF result = text /\ TextLength(text) > MarkerMinLen
  THEN <<Marker>> \o text
  ELSE result

SimpleTranslate(text) ==
  IF text = <<>> THEN text
  ELSE MarkUntranslated(text, IF TextLength(text) < KeywordMaxLen
                              THEN ApplyKeywords(text, text, KeywordMap)
                              ELSE text)

\* A property Object.prototype gives every object literal under a lower-case
\* key, and its value (a function, which is truthy).
InheritedKey == <<"c", "o", "n", "s", "t", "r", "u", "c", "t", "o", "r">>
InheritedValue == <<"function_Object">>

\* obj[key]: the own property, else the inherited one, else undefined.
ObjGet(obj, key) ==
  IF key \in DOMAIN obj THEN obj[key]
  ELSE IF key = InheritedKey THEN InheritedValue
  ELSE <<>>

\* obj[key] = value
ObjSet(obj, key, value) ==
  [k \in DOMAIN obj \cup {key} |-> IF k = key THEN value ELSE obj[k]]

EmptyObject == [k \in {} |-> <<>>]

-----------------------------------------------------------------------------
(* The summary resolver.                                                   *)

\* loadProjectSummaries: the index built from the report's blocks (a heading
\* with the entity's name, then its one-line summary), under the full name and
\* under the short name, both lower-cased; a later block overwrites.
RECURSIVE LoadProjectSummaries(_)
LoadProjectSummaries(blocks) ==
  IF blocks = <<>> THEN EmptyObject
  ELSE LET b == blocks[Len(blocks)]
           cache == LoadProjectSummaries(SubSeq(blocks, 1, Len(blocks) - 1))
           full == ObjSet(cache, ToLowerCase(b.name), b.summary)
       IN IF HasSlash(b.name)
          THEN ObjSet(full, ToLowerCase(LastPart(b.name)), b.summary)
          ELSE full

\* A bug getChineseSummary might have: the short name is never looked up.
GetChineseSummaryFullOnly(projectName, originalDesc) ==
  LET nameKey == ToLowerCase(projectName)
  IN IF ObjGet(projectSummariesCache, nameKey) # <<>>
     THEN ObjGet(projectSummariesCache, nameKey)
     ELSE IF originalDesc # <<>> /\ SimpleTranslate(originalDesc) # originalDesc
     THEN SimpleTranslate(originalDesc)
     ELSE IF originalDesc # <<>> THEN originalDesc
     ELSE Placeholder

GetChineseSummary(projectName, originalDesc) ==
  LET nameKey == ToLowerCase(projectName)
      shortName == ToLowerCase(LastPart(projectName))
  IN IF ObjGet(projectSummariesCache, nameKey) # <<>>
     THEN ObjGet(projectSummariesCache, nameKey)
     ELSE IF HasSlash(projectName)
             /\ ObjGet(projectSummariesCache, shortName) # <<>>
     THEN ObjGet(projectSummariesCache, shortName)
     ELSE IF originalDesc # <<>> /\ SimpleTranslate(originalDesc) # originalDesc
     THEN SimpleTranslate(originalDesc)
     ELSE IF originalDesc # <<>> THEN originalDesc
     ELSE Placeholder

\* A bug the guard might have: the API key is not looked at.
EnabledWithoutKey == openai.enabled

\* config.openai.enabled && config.openai.apiKey
EnrichmentConfigured == openai.enabled /\ openai.apiKey

\* A bug translateWithCache might have: the request is dispatched before the
\* keyword text is looked at.
TranslateUncachedSendsFirst(cache, cacheKey, projectName, text, simple) ==
  [value |-> IF simple # text THEN simple ELSE <<>>,
   cache |-> IF simple # text THEN ObjSet(cache, cacheKey, simple)
             ELSE IF TextLength(text) > MarkerMinLen
             THEN ObjSet(cache, cacheKey, <<Marker>> \o text)
             ELSE cache,
   sent |-> IF EnrichmentConfigured
            THEN <<[key |-> cacheKey, name |-> projectName, text |-> text]>>
            ELSE <<>>]

\* translateWithCache past its cache lookup: `simple` is simpleTranslate(text).
TranslateUncached(cache, cacheKey, projectName, text, simple) ==
  IF simple # text
  THEN [value |-> simple, cache |-> ObjSet(cache, cacheKey, simple), sent |-> <<>>]
  ELSE [value |-> <<>>,
        cache |-> IF TextLength(text) > MarkerMinLen
                  THEN ObjSet(cache, cacheKey, <<Marker>> \o text)
                  ELSE cache,
        sent |-> IF EnrichmentConfigured
                 THEN <<[key |-> cacheKey, name |-> projectName, text |-> text]>>
                 ELSE <<>>]

\* A bug translateWithCache might have: the cache is never consulted.
TranslateSkipsCache(cache, cacheKey, projectName, text, cached) ==
  TranslateUncached(cache, cacheKey, projectName, text, SimpleTranslate(text))

\* translateWithCache from its cache lookup on: `cached` is what the cache
\* holds under cacheKey.
TranslateCached(cache, cacheKey, projectName, text, cached) ==
  IF cached # <<>>
  THEN [value |-> cached, cache |-> cache, sent |-> <<>>]
  ELSE TranslateUncached(cache, cacheKey, projectName, text, SimpleTranslate(text))

\* translateWithCache once cacheKey is computed.
TranslateWithKey(cache, cacheKey, projectName, text) ==
  TranslateCached(cache, cacheKey, projectName, text, ObjGet(cache, cacheKey))

\* translateWithCache on the cache `cache`: the value returned (<<>> is null),
\* the cache it leaves, and the requests it dispatches.
TranslateWithCache(cache, projectName, text) ==
  IF text = <<>> THEN [value |-> <<>>, cache |-> cache, sent |-> <<>>]
  ELSE TranslateWithKey(cache, ToLowerCase(projectName), projectName, text)

\* return translated || item.description
TranslatedOrRaw(item, t) ==
  IF t.value # <<>> THEN t ELSE [t EXCEPT !.value = item.description]

\* A bug getDetailedDescription might have: the summary it returns is put
\* into the translation cache.
DetailedFromCachingSummary(cache, item, cnSummary) ==
  IF cnSummary # <<>> /\ cnSummary # item.description /\ cnSummary # Placeholder
  THEN [value |-> cnSummary,
        cache |-> ObjSet(cache, ToLowerCase(item.name), cnSummary), sent |-> <<>>]
  ELSE IF item.description # <<>>
  THEN TranslatedOrRaw(item, TranslateWithCache(cache, item.name, item.description))
  ELSE [value |-> Placeholder, cache |-> cache, sent |-> <<>>]

\* getDetailedDescription after its lookup: cnSummary is what
\* getChineseSummary returned.
DetailedFrom(cache, item, cnSummary) ==
  IF cnSummary # <<>> /\ cnSummary # item.description /\ cnSummary # Placeholder
  THEN [value |-> cnSummary, cache |-> cache, sent |-> <<>>]
  ELSE IF item.description # <<>>
  THEN TranslatedOrRaw(item, TranslateWithCache(cache, item.name, item.description))
  ELSE [value |-> Placeholder, cache |-> cache, sent |-> <<>>]

\* getDetailedDescription on the cache `cache`, with the same three results.
GetDetailedDescription(cache, item) ==
  DetailedFrom(cache, item, GetChineseSummary(item.name, item.description))

\* The object enrichRankingItem returns; d is what getDetailedDescription gave.
EnrichedItem(item, chineseDesc, d) ==
  [item |-> [name |-> item.name, url |-> item.url,
             description |-> item.description, stars |-> item.stars,
             count |-> item.count, dates |-> item.dates,
             chineseDesc |-> chineseDesc, detailedDesc |-> d.value],
   cache |-> d.cache, sent |-> d.sent]

\* enrichRankingItem: the item with chineseDesc and detailedDesc added.
EnrichRankingItem(cache, item) ==
  EnrichedItem(item, GetChineseSummary(item.name, item.description),
               GetDetailedDescription(cache, item))

\* What a call of getDetailedDescription leaves; d is its three results.
DetailCalled(item, d) ==
  /\ translationCache' = d.cache
  /\ pending' = pending \o d.sent
  /\ lastCall' = [fn |-> "getDetailedDescription", name |-> item.name,
                  description |-> item.description, value |-> d.value]

\* A call of getDetailedDescription, the first call made on the module.
CallGetDetailedDescription(item) ==
  /\ lastCall.fn = "none"
  /\ DetailCalled(item, GetDetailedDescription(translationCache, item))
  /\ UNCHANGED <<rankVars, callVars, projectSummariesCache, openai, diskVars, buildVars>>

\* A call of getChineseSummary; it reads the curated index and nothing else.
CallGetChineseSummary(projectName, originalDesc) ==
  /\ lastCall' = [fn |-> "getChineseSummary", name |-> projectName,
                  description |-> originalDesc,
                  value |-> GetChineseSummary(projectName, originalDesc)]
  /\ UNCHANGED <<rankVars, callVars, projectSummariesCache, translationCache, openai, pending,
                 diskVars, buildVars>>

-----------------------------------------------------------------------------
(* readHistoryData.  A snapshot file is trending_<day>.json: `day` numbers  *)
(* the date of its name (the names are ISO dates of one width, so their     *)
(* order as strings is the order of the days), `parses` tells whether its   *)
(* body is JSON, and isArray and items give the parsed body.                *)

SnapshotFile(day, parses, isArray, items) ==
  [day |-> day, validDate |-> TRUE, parses |-> parses, isArray |-> isArray,
   items |-> items]

\* A file whose name matches the ten characters of a date that is none (a
\* month 13): new Date gives an invalid date.  `day` tells where the name
\* sorts.
MisdatedFile(day, items) ==
  [day |-> day, validDate |-> FALSE, parses |-> TRUE, isArray |-> TRUE,
   items |-> items]

\* A bug the filter might have: the window is counted in whole days.
InWindowWholeDays(day, days) == day >= now.day - days /\ day <= now.day

\* A bug the filter might have: the files older than the cutoff are kept.
InWindowBeforeCutoff(day, days) == day <= now.day - days

\* fileDate >= cutoffDate && fileDate <= now, for fileDate the midnight (UTC)
\* that opens the file's day and cutoffDate = now - days * 24 h.
InWindow(day, days) ==
  /\ IF now.pastMidnight THEN day > now.day - days ELSE day >= now.day - days
  /\ day <= now.day

\* .sort().reverse(): by file name, descending.
RECURSIVE SortedDescending(_)
SortedDescending(fs) ==
  IF fs = {} THEN <<>>
  ELSE LET newest == CHOOSE f \in fs : \A g \in fs : g.day <= f.day
       IN <<newest>> \o SortedDescending(fs \ {newest})

\* A bug the loop might have: the first file that does not parse ends it.
RECURSIVE ParsedFilesUntilError(_)
ParsedFilesUntilError(recentFiles) ==
  IF recentFiles = <<>> \/ ~Head(recentFiles).parses THEN <<>>
  ELSE LET f == Head(recentFiles)
       IN <<Snapshot(f.day, f.isArray, f.items)>>
            \o ParsedFilesUntilError(Tail(recentFiles))

\* The loop over recentFiles: a file that does not parse is skipped.
RECURSIVE ParsedFiles(_)
ParsedFiles(recentFiles) ==
  IF recentFiles = <<>> THEN <<>>
  ELSE LET f == Head(recentFiles)
       IN (IF f.parses THEN <<Snapshot(f.day, f.isArray, f.items)>> ELSE <<>>)
            \o ParsedFiles(Tail(recentFiles))

\* The filter's test: every comparison with an invalid date is false.
InRange(f, days) == f.validDate /\ InWindow(f.day, days)

\* readHistoryData in a directory that exists and holds the files fs.
ReadFiles(fs, days) ==
  ParsedFiles(SortedDescending({f \in fs : InRange(f, days)}))

ReadHistoryData(days) ==
  IF ~dataDir THEN <<>> ELSE ReadFiles(files, days)

\* A call of readHistoryData.
CallReadHistoryData(days) ==
  /\ historyData' = ReadHistoryData(days)
  /\ readDays' = days
  /\ UNCHANGED <<repoMap, ranking, prevHistory, prevRanking, resolverVars,
                 diskVars, buildVars, aiCall>>

-----------------------------------------------------------------------------
(* generateRankingData, step by step.  The call runs to completion: no      *)
(* callback runs while pc is not "idle".                                    *)

\* The content of a file: absent, not JSON, or the JSON of an object.
MissingFile == [kind |-> "missing", content |-> EmptyObject]
CorruptFile == [kind |-> "corrupt", content |-> EmptyObject]
JsonFile(obj) == [kind |-> "json", content |-> obj]

\* A bug generateRankingData might have: the cache is saved before the items
\* are resolved.
StepAfterSaveEarly(step) ==
  CASE step = "load" -> "rank"
    [] step = "rank" -> "saveCache"
    [] step = "saveCache" -> "resolve"
    [] step = "resolve" -> "writePayload"
    [] OTHER -> "idle"

\* The order of the statements of generateRankingData.
StepAfter(step) ==
  CASE step = "load" -> "rank"
    [] step = "rank" -> "resolve"
    [] step = "resolve" -> "saveCache"
    [] step = "saveCache" -> "writePayload"
    [] OTHER -> "idle"

\* loadTranslationCache: the cache in memory after the call.
LoadTranslationCache ==
  IF cacheFile.kind = "json" THEN cacheFile.content
  ELSE IF cacheFile.kind = "corrupt" THEN EmptyObject
  ELSE translationCache

\* A bug a write might have: the catch block throws the error again.
CatchAndRethrow(ok) == [logged |-> ~ok, thrown |-> ~ok]

\* saveTranslationCache's catch block: the error is logged, nothing is thrown.
SaveCacheCatch(ok) == [logged |-> ~ok, thrown |-> FALSE]

\* The catch block around the payload's writeFileSync: the same.
WritePayloadCatch(ok) == [logged |-> ~ok, thrown |-> FALSE]

\* generateRankingData is called at most MaxBuilds times.
MaxBuilds == 2

\* translateWithOpenAI not called.
NoAiCall == [status |-> "none", text |-> <<>>, attempt |-> 0, elapsed |-> 0,
             requests |-> 0, stale |-> 0, log |-> <<>>, result |-> <<>>]

NoOutcome == [how |-> "none", result |-> <<>>]

\* The call of generateRankingData and its first statement.
StartBuild ==
  /\ pc = "idle"
  /\ builds < MaxBuilds
  /\ builds' = builds + 1
  /\ translationCache' = LoadTranslationCache
  /\ loadedFrom' = cacheFile.kind
  /\ writeErrors' = {}
  /\ logs' = IF cacheFile.kind = "corrupt" THEN <<"warn: load cache">>
             ELSE IF cacheFile.kind = "json" THEN <<"log: cache loaded">>
             ELSE <<>>
  /\ events' = <<"load">>
  /\ rankings' = <<>>
  /\ outcome' = NoOutcome
  /\ pc' = StepAfter("load")
  /\ UNCHANGED <<rankVars, callVars, projectSummariesCache, openai, pending, lastCall, diskVars>>

\* One of the three calls of calculateRanking throws; nothing catches it.
SomeRankingThrows ==
  \/ RankingThrows(ReadHistoryData(week))
  \/ RankingThrows(ReadHistoryData(month))
  \/ RankingThrows(ReadHistoryData(quarter))

\* The three reads and the three rankings, or the three reads and the
\* TypeError that ends the build.
ReadAndRank ==
  /\ pc = "rank"
  /\ IF SomeRankingThrows
     THEN /\ events' = Append(events, "read")
          /\ pc' = "idle"
          /\ outcome' = [how |-> "TypeError", result |-> <<>>]
          /\ UNCHANGED rankings
     ELSE /\ rankings' = <<RankingOf(ReadHistoryData(week)),
                           RankingOf(ReadHistoryData(month)),
                           RankingOf(ReadHistoryData(quarter))>>
          /\ events' = events \o <<"read", "rank">>
          /\ pc' = StepAfter("rank")
          /\ UNCHANGED outcome
  /\ UNCHANGED <<rankVars, callVars, resolverVars, diskVars, builds, logs, loadedFrom,
                 writeErrors>>

\* One more item mapped: `done` is the list so far, `first` the item's result.
Enriched(done, first) ==
  [list |-> Append(done.list, first.item), cache |-> first.cache,
   sent |-> done.sent \o first.sent]

\* list.map(item => enrichRankingItem(item)) on the cache `cache`: the
\* enriched list, the cache it leaves and the requests it dispatches.
RECURSIVE EnrichList(_, _)
EnrichList(done, list) ==
  IF list = <<>> THEN done
  ELSE EnrichList(Enriched(done, EnrichRankingItem(done.cache, Head(list))),
                  Tail(list))

\* One more list mapped: `done` is the lists so far, `r` the list's result.
EnrichedLists(done, r) ==
  [lists |-> Append(done.lists, r.list), cache |-> r.cache, sent |-> r.sent]

\* The three maps, week first: the lists, the cache and the requests.
RECURSIVE EnrichLists(_, _)
EnrichLists(done, lists) ==
  IF lists = <<>> THEN done
  ELSE EnrichLists(
         EnrichedLists(done, EnrichList([list |-> <<>>, cache |-> done.cache,
                                         sent |-> done.sent], Head(lists))),
         Tail(lists))

\* What Resolve leaves: r is the result of the three maps.
Resolved(r) ==
  /\ rankings' = r.lists
  /\ translationCache' = r.cache
  /\ pending' = r.sent

Resolve ==
  /\ pc = "resolve"
  /\ Resolved(EnrichLists([lists |-> <<>>, cache |-> translationCache,
                           sent |-> pending], rankings))
  /\ events' = Append(events, "resolve")
  /\ pc' = StepAfter("resolve")
  /\ UNCHANGED <<rankVars, callVars, projectSummariesCache, openai, lastCall, diskVars,
                 builds, logs, loadedFrom, writeErrors, outcome>>

\* saveTranslationCache: writeFileSync replaces the file by the whole cache,
\* or fails and leaves the file as it was.
SaveTranslationCache ==
  /\ pc = "saveCache"
  /\ \E ok \in BOOLEAN :
       /\ cacheFile' = IF ok THEN JsonFile(translationCache) ELSE cacheFile
       /\ writeErrors' = IF ok THEN writeErrors ELSE writeErrors \cup {"cache"}
       /\ logs' = Append(logs, IF SaveCacheCatch(ok).logged
                               THEN "warn: save cache" ELSE "log: cache saved")
       /\ IF SaveCacheCatch(ok).thrown
          THEN pc' = "idle" /\ outcome' = [how |-> "threw", result |-> <<>>]
          ELSE pc' = StepAfter("saveCache") /\ UNCHANGED outcome
  /\ events' = Append(events, "saveCache")
  /\ UNCHANGED <<rankVars, callVars, resolverVars, files, now, dataDir, payloadFile,
                 builds,
                 rankings, loadedFrom>>

\* The payload's writeFileSync, and the return.
WritePayload ==
  /\ pc = "writePayload"
  /\ \E ok \in BOOLEAN :
       /\ payloadFile' = IF ok THEN JsonFile(rankings) ELSE payloadFile
       /\ writeErrors' = IF ok THEN writeErrors ELSE writeErrors \cup {"payload"}
       /\ logs' = Append(logs, IF WritePayloadCatch(ok).logged
                               THEN "error: write payload" ELSE "log: payload written")
       /\ outcome' = IF WritePayloadCatch(ok).thrown
                     THEN [how |-> "threw", result |-> <<>>]
                     ELSE [how |-> "returned", result |-> rankings]
  /\ events' = Append(events, "writePayload")
  /\ pc' = StepAfter("writePayload")
  /\ UNCHANGED <<rankVars, callVars, resolverVars, files, now, dataDir, cacheFile,
                 builds,
                 rankings, loadedFrom>>

\* What an enrichment request resolves to: a translation, or null.
AiText == <<"zh_ai">>
AiTextAgain == <<"zh_ai", "zh_again">>
EnrichmentResults == {AiText, AiTextAgain, <<>>}

\* A bug the callback might have: a value the key holds already is kept.
ThenKeepsEntry(cache, cacheKey, translated) ==
  IF translated # <<>> /\ ObjGet(cache, cacheKey) = <<>>
  THEN ObjSet(cache, cacheKey, translated)
  ELSE cache

\* The callback of translateWithOpenAI(text).then: the cache it leaves.
ThenCallback(cache, cacheKey, translated) ==
  IF translated # <<>> THEN ObjSet(cache, cacheKey, translated) ELSE cache

\* A bug the runtime does not have: a callback runs in the middle of a build.
CallbackRunsAnytime == TRUE

\* generateRankingData is synchronous from its first statement to its return:
\* a promise callback runs only when no build is on the stack.
CallbackMayRun == pc = "idle"

\* The callback runs when no call is on the stack, once for each request and
\* in any order; .catch(err => {}) drops whatever it might throw.
EnrichmentSettles ==
  /\ CallbackMayRun
  /\ \E i \in DOMAIN pending, translated \in EnrichmentResults :
       /\ translationCache' = ThenCallback(translationCache, pending[i].key, translated)
       /\ pending' = SubSeq(pending, 1, i - 1) \o SubSeq(pending, i + 1, Len(pending))
       /\ lastCall' = [fn |-> "then", name |-> pending[i].name,
                       description |-> pending[i].text, value |-> translated]
  /\ UNCHANGED <<rankVars, callVars, projectSummariesCache, openai, diskVars, buildVars>>

-----------------------------------------------------------------------------
(* translateWithOpenAI, one call followed from the call to the settling of  *)
(* its promise.  aiCall.attempt is the loop's variable, elapsed the time    *)
(* since the attempt began, requests the calls of callOpenAI made so far    *)
(* and stale those a timer has overtaken and that are still in flight.      *)

\* Time passes in steps of half the timeout.
TickMs == timeout \div 2

LogLine(level, attempt, message) ==
  [level |-> level, attempt |-> attempt, of |-> maxRetries, message |-> message]

\* The catch block: its console lines for the attempt `attempt`.
CatchLines(attempt, message) ==
  <<LogLine("warn", attempt + 1, message)>>
    \o (IF attempt = maxRetries - 1
        THEN <<LogLine("error", attempt + 1, message)>> ELSE <<>>)

\* A bug the loop might have: it gives up after the first failure.
AfterFailureGivesUp(call, message, inFlight) ==
  [call EXCEPT !.log = @ \o CatchLines(call.attempt, message),
               !.stale = @ + inFlight, !.status = "resolved", !.result = <<>>]

\* The catch block and the loop's next turn: the next attempt's request is
\* sent, or, after the last attempt, the promise resolves to null.
AfterFailure(call, message, inFlight) ==
  IF call.attempt + 1 < maxRetries
  THEN [call EXCEPT !.log = @ \o CatchLines(call.attempt, message),
                    !.stale = @ + inFlight,
                    !.attempt = @ + 1, !.elapsed = 0, !.requests = @ + 1]
  ELSE [call EXCEPT !.log = @ \o CatchLines(call.attempt, message),
                    !.stale = @ + inFlight,
                    !.status = "resolved", !.result = <<>>]

AiFrame ==
  UNCHANGED <<rankVars, resolverVars, diskVars, buildVars, readDays>>

\* The call: the loop is entered and the first request sent.
CallTranslateWithOpenAI(text) ==
  /\ aiCall.status = "none"
  /\ aiCall' = [NoAiCall EXCEPT !.status = "attempting", !.text = text,
                                !.requests = 1]
  /\ AiFrame

AiTimePasses ==
  /\ aiCall.status = "attempting"
  /\ aiCall.elapsed < timeout
  /\ aiCall' = [aiCall EXCEPT !.elapsed = @ + TickMs]
  /\ AiFrame

\* callOpenAI resolves before the timer: return result.
AttemptResolves(content) ==
  /\ aiCall.status = "attempting"
  /\ aiCall' = [aiCall EXCEPT !.status = "resolved", !.result = content]
  /\ AiFrame

\* callOpenAI rejects before the timer (network error, error payload,
\* unknown response).
AttemptRejects(message) ==
  /\ aiCall.status = "attempting"
  /\ aiCall' = AfterFailure(aiCall, message, 0)
  /\ AiFrame

\* The timer wins the race; the request stays in flight.
AttemptTimesOut ==
  /\ aiCall.status = "attempting"
  /\ aiCall.elapsed >= timeout
  /\ aiCall' = AfterFailure(aiCall, "Timeout", 1)
  /\ AiFrame

\* A request a timer has overtaken settles: the race is over, nothing happens.
StaleRequestSettles ==
  /\ aiCall.stale > 0
  /\ aiCall' = [aiCall EXCEPT !.stale = @ - 1]
  /\ AiFrame

-----------------------------------------------------------------------------
(* The arguments calculateRanking is called with: histories of a few entries *)
(* of two entities, and histories of two snapshots that list more entities  *)
(* than the ranking keeps.                                                  *)

MaxRows == 3
NumWide == 11

NameAX == <<"a", "/", "x">>
NameBY == <<"b", "/", "y">>

Stars1200 == Str(<<"1", ",", "2", "0", "0">>)
Stars900 == Str(<<"9", "0", "0">>)

DescPlain == <<"zz">>
DescTool == <<"tool">>

RankDays == {1, 2}

RankEntries ==
  { Entry(NameAX, "u1", DescPlain, Stars1200),
    Entry(NameAX, "u1", DescPlain, Stars900),
    Entry(NameAX, "", <<>>, Undefined),
    Entry(NameBY, "u2", DescTool, Stars900),
    Entry(<<>>, "u3", DescTool, Stars900) }

\* A history is written row by row: a row opens a snapshot of day `day` (with
\* a first entry, or with data that is no array) or, with day 0, adds an
\* entry to the snapshot last opened.
Rows ==
  [day : RankDays \cup {0}, isArray : {TRUE}, entry : RankEntries]
    \cup [day : RankDays, isArray : {FALSE}, entry : {NullEntry}]

RECURSIVE HistoryOfRows(_)
HistoryOfRows(rows) ==
  IF rows = <<>> THEN <<>>
  ELSE LET h == HistoryOfRows(SubSeq(rows, 1, Len(rows) - 1))
           r == rows[Len(rows)]
       IN IF r.day = 0
          THEN [h EXCEPT ![Len(h)].data.items = Append(@, r.entry)]
          ELSE Append(h, Snapshot(r.day, r.isArray,
                                  IF r.isArray THEN <<r.entry>> ELSE <<>>))

\* The names of the entries of a snapshot that calculateRanking counts.
ValidNames(items) ==
  {items[i].name : i \in {j \in DOMAIN items :
                             items[j].kind = "obj" /\ items[j].name # <<>>}}

\* Section 3 of the specification: a name is a unique key within a day.
UniqueNames(items) ==
  \A i, j \in DOMAIN items :
    (i # j /\ items[i].kind = "obj" /\ items[j].kind = "obj"
       /\ items[i].name # <<>>) => items[i].name # items[j].name

\* Rows that write a history: the first row opens a snapshot, an entry is
\* added only to an array, and no snapshot lists a name twice.
RECURSIVE RowsOk(_)
RowsOk(rows) ==
  IF rows = <<>> THEN TRUE
  ELSE LET front == SubSeq(rows, 1, Len(rows) - 1)
           h == HistoryOfRows(front)
           r == rows[Len(rows)]
       IN /\ RowsOk(front)
          /\ r.day = 0 =>
               /\ h # <<>>
               /\ h[Len(h)].data.isArray
               /\ UniqueNames(Append(h[Len(h)].data.items, r.entry))

SmallHistories ==
  {HistoryOfRows(rows) : rows \in {r \in SeqUpTo(Rows, MaxRows) : RowsOk(r)}}

WideChars ==
  <<"a", "b", "c", "d", "e", "f", "g", "h", "i", "j", "k", "l", "m", "n">>

WideName(i) == <<"w", "/", WideChars[i]>>

StarsCycle == <<Stars1200, Stars900, Undefined>>

WideEntry(i, p) == Entry(WideName(i), "", <<>>, StarsCycle[((i + p) % 3) + 1])

WideSnapshot(d, lo, hi, p) ==
  Snapshot(d, TRUE, [k \in 1..(hi - lo + 1) |-> WideEntry(lo + k - 1, p)])

WideHistories ==
  {<<WideSnapshot(2, 1, k, 0), WideSnapshot(1, lo, hi, p)>> :
     k \in 0..NumWide, lo \in 1..NumWide, hi \in 0..NumWide, p \in 0..1}

\* Stars written with a separator that is no comma, and one snapshot of two
\* entities for every two of these strings.
StarsDot == Str(<<"1", ".", "2", "0", "0">>)
StarsSpace == Str(<<"1", " ", "2", "0", "0">>)

SeparatorStars == {Stars1200, Stars900, StarsDot, StarsSpace}

SeparatorHistories ==
  {<<Snapshot(1, TRUE, <<Entry(NameAX, "u1", DescPlain, s1),
                         Entry(NameBY, "u2", DescTool, s2)>>)>> :
     s1 \in SeparatorStars, s2 \in SeparatorStars}

\* Histories with malformed entries: a null element, an entry without a name,
\* and stars given as a number.
Stars1200Num == Num(<<"1", "2", "0", "0">>)

MalformedEntries ==
  { NullEntry,
    Entry(<<>>, "u3", DescTool, Stars900),
    Entry(NameAX, "u1", DescPlain, Stars1200Num),
    Entry(NameBY, "u2", DescTool, Stars900) }

MalformedHistories ==
  {<<Snapshot(2, TRUE, first), Snapshot(1, TRUE, <<e3>>)>> :
     first \in {items \in [1..2 -> MalformedEntries] : UniqueNames(items)},
     e3 \in MalformedEntries}

\* The resolver's state when the module is loaded.
ResolverIdle ==
  /\ projectSummariesCache = EmptyObject
  /\ translationCache = EmptyObject
  /\ openai = [enabled |-> FALSE, apiKey |-> FALSE]
  /\ pending = <<>>
  /\ lastCall = [fn |-> "none", name |-> <<>>, description |-> <<>>, value |-> <<>>]

\* calculateRanking not called yet.
RankIdle ==
  /\ repoMap = <<>>
  /\ ranking = NoCall
  /\ prevHistory = <<>>
  /\ prevRanking = NoCall

\* No call of readHistoryData or translateWithOpenAI made.
CallsIdle ==
  /\ readDays = 0
  /\ aiCall = NoAiCall

\* No data directory, and generateRankingData not called.
BuildIdle ==
  /\ CallsIdle
  /\ files = {}
  /\ dataDir = FALSE
  /\ now = [day |-> 100, pastMidnight |-> TRUE]
  /\ cacheFile = MissingFile
  /\ payloadFile = MissingFile
  /\ pc = "idle"
  /\ builds = 0
  /\ rankings = <<>>
  /\ events = <<>>
  /\ logs = <<>>
  /\ loadedFrom = "none"
  /\ writeErrors = {}
  /\ outcome = NoOutcome

InitRank ==
  /\ historyData \in SmallHistories \cup WideHistories \cup SeparatorHistories
                      \cup MalformedHistories
  /\ RankIdle
  /\ ResolverIdle
  /\ BuildIdle

NextRank == CalculateRanking

SpecRank == InitRank /\ [][NextRank]_vars

-----------------------------------------------------------------------------
(* The resolver called on its own: the curated index is built from a report *)
(* of a few blocks, the translation cache holds a few entries, and          *)
(* getChineseSummary is called for a few names and descriptions.            *)

MaxBlocks == 2

NameUpperAX == <<"A", "/", "X">>
NameOX == <<"o", "/", "x">>
NameX == <<"x">>

SummaryFull == <<"zh_curated">>
SummaryOther == <<"zh_other">>
CachedText == <<"zh_cached">>

ReportBlocks == [name : {NameAX, NameOX}, summary : {SummaryFull, SummaryOther}]

CuratedIndexes ==
  {LoadProjectSummaries(blocks) : blocks \in SeqUpTo(ReportBlocks, MaxBlocks)}

CacheContents ==
  {[k \in keys |-> CachedText] : keys \in SUBSET {NameAX, NameBY}}

OpenaiConfigs == [enabled : BOOLEAN, apiKey : BOOLEAN]

ResolveNames == {NameAX, NameUpperAX, NameBY, NameX}

ResolveDescs ==
  { <<>>, <<"zz">>, <<"tool">>, <<"Web">>, <<"pad17", "zz">>,
    <<"pad18", "zz">>, <<"pad18", "tool">>, <<"pad95", "tool">> }

InitResolve ==
  /\ historyData = <<>>
  /\ RankIdle
  /\ projectSummariesCache \in CuratedIndexes
  /\ translationCache \in CacheContents
  /\ openai \in OpenaiConfigs
  /\ pending = <<>>
  /\ lastCall = [fn |-> "none", name |-> <<>>, description |-> <<>>, value |-> <<>>]
  /\ BuildIdle

NextResolve ==
  \E n \in ResolveNames, d \in ResolveDescs : CallGetChineseSummary(n, d)

SpecResolve == InitResolve /\ [][NextResolve]_vars

-----------------------------------------------------------------------------
(* One call of getDetailedDescription, or calls of getChineseSummary, on a  *)
(* curated index that may repeat a raw description, for names that include  *)
(* one whose last part is a property every object inherits.                 *)

NameCtor == <<"a", "/">> \o InheritedKey

DetailNames == ResolveNames \cup {NameCtor}

\* Indexes whose summary of a/x is one of the raw descriptions.
CuratedEchoes ==
  {LoadProjectSummaries(<<[name |-> NameAX, summary |-> d]>>) :
     d \in {<<"zz">>, <<"pad18", "tool">>, <<"pad18", "zz">>}}

InitDetail ==
  /\ historyData = <<>>
  /\ RankIdle
  /\ projectSummariesCache \in CuratedIndexes \cup CuratedEchoes
  /\ translationCache \in CacheContents
  /\ openai \in OpenaiConfigs
  /\ pending = <<>>
  /\ lastCall = [fn |-> "none", name |-> <<>>, description |-> <<>>, value |-> <<>>]
  /\ BuildIdle

NextDetail ==
  \/ \E n \in DetailNames, d \in ResolveDescs :
       CallGetDetailedDescription([name |-> n, description |-> d])
  \/ \E n \in DetailNames, d \in ResolveDescs : CallGetChineseSummary(n, d)

SpecDetail == InitDetail /\ [][NextDetail]_vars

-----------------------------------------------------------------------------
(* One call of translateWithOpenAI, with the capability configured.         *)

AiMessages == {"socket hang up", "Unknown API response"}

InitEnrich ==
  /\ historyData = <<>>
  /\ RankIdle
  /\ projectSummariesCache = EmptyObject
  /\ translationCache = EmptyObject
  /\ openai = [enabled |-> TRUE, apiKey |-> TRUE]
  /\ pending = <<>>
  /\ lastCall = [fn |-> "none", name |-> <<>>, description |-> <<>>, value |-> <<>>]
  /\ BuildIdle

NextEnrich ==
  \/ \E text \in {DescPlain, <<"Web">>} : CallTranslateWithOpenAI(text)
  \/ AiTimePasses
  \/ \E content \in EnrichmentResults : AttemptResolves(content)
  \/ \E message \in AiMessages : AttemptRejects(message)
  \/ AttemptTimesOut
  \/ StaleRequestSettles

SpecEnrich == InitEnrich /\ [][NextEnrich]_vars

-----------------------------------------------------------------------------
(* The builds: generateRankingData called up to MaxBuilds times by one      *)
(* process, on a data directory holding some of four snapshot files, with   *)
(* enrichment callbacks running between the calls.                          *)

Stars500 == Str(<<"5", "0", "0">>)
Stars1300 == Str(<<"1", ",", "3", "0", "0">>)

DescLongTool == <<"pad18", "tool">>

\* The two days of the specification's example, and an older file of the day
\* the week's window opens.
FileDay1 ==
  SnapshotFile(99, TRUE, TRUE,
               <<Entry(NameAX, "u1", DescPlain, Stars1200),
                 Entry(NameBY, "u2", DescLongTool, Stars500)>>)
FileDay2 ==
  SnapshotFile(100, TRUE, TRUE, <<Entry(NameAX, "u1", DescPlain, Stars1300)>>)
FileOld ==
  SnapshotFile(93, TRUE, TRUE,
               <<Entry(NameAX, "u1", DescPlain, Stars900),
                 Entry(NameBY, "u2", DescLongTool, Stars900)>>)

\* A file of the first day whose scraper wrote the stars of a/x as a number.
FileNumeric ==
  SnapshotFile(99, TRUE, TRUE,
               <<Entry(NameAX, "u1", DescPlain, Stars1200Num),
                 Entry(NameBY, "u2", DescLongTool, Stars500)>>)

BuildCurated ==
  { EmptyObject,
    LoadProjectSummaries(<<[name |-> NameAX, summary |-> SummaryFull]>>),
    LoadProjectSummaries(<<[name |-> NameBY, summary |-> DescLongTool]>>) }

BuildCacheFiles ==
  {MissingFile, CorruptFile, JsonFile(EmptyObject),
   JsonFile([k \in {NameAX} |-> CachedText])}

Init ==
  /\ historyData = <<>>
  /\ RankIdle
  /\ projectSummariesCache \in BuildCurated
  /\ translationCache = EmptyObject
  /\ openai \in {[enabled |-> FALSE, apiKey |-> FALSE],
                 [enabled |-> TRUE, apiKey |-> FALSE],
                 [enabled |-> TRUE, apiKey |-> TRUE]}
  /\ pending = <<>>
  /\ lastCall = [fn |-> "none", name |-> <<>>, description |-> <<>>, value |-> <<>>]
  /\ files \in (SUBSET {FileDay1, FileDay2, FileOld})
                \cup {{FileNumeric}, {FileNumeric, FileDay2}}
  /\ dataDir = TRUE
  /\ CallsIdle
  /\ now \in {[day |-> 100, pastMidnight |-> b] : b \in BOOLEAN}
  /\ cacheFile \in BuildCacheFiles
  /\ payloadFile = MissingFile
  /\ pc = "idle"
  /\ builds = 0
  /\ rankings = <<>>
  /\ events = <<>>
  /\ logs = <<>>
  /\ loadedFrom = "none"
  /\ writeErrors = {}
  /\ outcome = NoOutcome

Next ==
  \/ StartBuild
  \/ ReadAndRank
  \/ Resolve
  \/ SaveTranslationCache
  \/ WritePayload
  \/ EnrichmentSettles

Spec == Init /\ [][Next]_vars

-----------------------------------------------------------------------------
(* readHistoryData called on a data directory, and calculateRanking on what *)
(* it returns.                                                              *)

FileFuture ==
  SnapshotFile(101, TRUE, TRUE, <<Entry(NameBY, "u2", DescTool, Stars1200)>>)
FileMonth ==
  SnapshotFile(70, TRUE, TRUE, <<Entry(NameBY, "u2", DescTool, Stars900)>>)
FileQuarter ==
  SnapshotFile(10, TRUE, TRUE, <<Entry(NameAX, "u1", DescPlain, Stars900)>>)
FileCorrupt == SnapshotFile(98, FALSE, FALSE, <<>>)
FileMisdated == MisdatedFile(97, <<Entry(NameBY, "u2", DescTool, Stars900)>>)

ReadFilePool ==
  {FileDay1, FileDay2, FileOld, FileFuture, FileMonth, FileQuarter,
   FileCorrupt, FileMisdated}

InitRead ==
  /\ historyData = <<>>
  /\ RankIdle
  /\ ResolverIdle
  /\ readDays = 0
  /\ aiCall = NoAiCall
  /\ dataDir \in BOOLEAN
  /\ files \in IF dataDir THEN SUBSET ReadFilePool ELSE {{}}
  /\ now \in {[day |-> 100, pastMidnight |-> b] : b \in BOOLEAN}
  /\ cacheFile = MissingFile
  /\ payloadFile = MissingFile
  /\ pc = "idle"
  /\ builds = 0
  /\ rankings = <<>>
  /\ events = <<>>
  /\ logs = <<>>
  /\ loadedFrom = "none"
  /\ writeErrors = {}
  /\ outcome = NoOutcome

NextRead ==
  \/ \E days \in {week, month, quarter} : CallReadHistoryData(days)
  \/ CalculateRanking

SpecRead == InitRead /\ [][NextRead]_vars

-----------------------------------------------------------------------------
(* What the claims about calculateRanking speak of.                        *)

\* The snapshot h holds an entry named name.
SnapshotHas(h, name) == h.data.isArray /\ name \in ValidNames(h.data.items)

HistoryNames(history) ==
  UNION {IF history[k].data.isArray THEN ValidNames(history[k].data.items)
         ELSE {} : k \in DOMAIN history}

\* The number of (day, snapshot) pairs of history that hold name.
Occurrences(history, name) ==
  Cardinality({k \in DOMAIN history : SnapshotHas(history[k], name)})

Orderings(n) ==
  {f \in [1..n -> 1..n] : \A i, j \in 1..n : i # j => f[i] # f[j]}

Permuted(history, f) == [i \in DOMAIN history |-> history[f[i]]]

\* The count calculateRanking's fold gives name, 0 when it has no aggregate.
CountIn(map, name) ==
  IF MapIndex(map, name) = 0 THEN 0 ELSE map[MapIndex(map, name)].count

\* C1: after a call, every entity named in the argument has an aggregate whose
\* count is the number of (day, snapshot) pairs that hold an entry with its
\* name, no other name has one, and the fold of every permutation of the
\* argument gives each name the same count.
C1_CountIsOccurrences ==
  ranking.ret =>
    /\ {repoMap[i].name : i \in DOMAIN repoMap} = HistoryNames(historyData)
    /\ \A i \in DOMAIN repoMap :
         repoMap[i].count = Occurrences(historyData, repoMap[i].name)
    /\ \A f \in Orderings(Len(historyData)) :
         \A n \in HistoryNames(historyData) :
           CountIn(FoldHistory(NewRepoMap, Permuted(historyData, f)), n)
             = CountIn(repoMap, n)

\* A call has counted an entity twice in two snapshots of the same day, in an
\* argument that has a third snapshot without it.
C1_Witness ==
  /\ ranking.ret
  /\ Len(historyData) = 3
  /\ \E i \in DOMAIN repoMap :
       repoMap[i].count = 2 /\ Len(repoMap[i].dates) = 1

\* The stars values the entries named name carry in the snapshots of the
\* greatest day-key among the snapshots that hold name.
LatestDay(history, name) ==
  CHOOSE d \in {history[k].date : k \in {j \in DOMAIN history :
                                          SnapshotHas(history[j], name)}} :
    \A k \in DOMAIN history : SnapshotHas(history[k], name) => history[k].date <= d

StarsOn(history, name, d) ==
  UNION {{history[k].data.items[e].stars :
            e \in {x \in DOMAIN history[k].data.items :
                     /\ history[k].data.items[x].kind = "obj"
                     /\ history[k].data.items[x].name = name}} :
           k \in {j \in DOMAIN history :
                    history[j].date = d /\ history[j].data.isArray}}

\* C2: after a call, in whatever order the snapshots were processed, the stars
\* of every aggregate is the stars value of the entity's entry in the snapshot
\* of the greatest day-key among those holding it (stated for the entities
\* whose entries of that day all carry a stars value).
C2_StarsOfLatestDay ==
  ranking.ret =>
    \A i \in DOMAIN repoMap :
      LET latest == StarsOn(historyData, repoMap[i].name,
                            LatestDay(historyData, repoMap[i].name))
      IN (\A s \in latest : Truthy(s)) => repoMap[i].stars \in latest

\* The first place of name among the entries of history, read in order.
RECURSIVE NamesInOrder(_)
NamesInOrder(history) ==
  IF history = <<>> THEN <<>>
  ELSE LET h == Head(history)
           here == IF h.data.isArray
                   THEN SelectSeq(h.data.items,
                                  LAMBDA e : e.kind = "obj" /\ e.name # <<>>)
                   ELSE <<>>
       IN [k \in DOMAIN here |-> here[k].name] \o NamesInOrder(Tail(history))

FirstSeen(history, name) ==
  CHOOSE k \in DOMAIN NamesInOrder(history) :
    /\ NamesInOrder(history)[k] = name
    /\ \A j \in 1..(k - 1) : NamesInOrder(history)[j] # name

\* C4: the returned list is ordered by count descending, then by the number
\* its stars denote once the commas are removed, descending, and two items
\* equal on both stand in the order their names were first met.
C4_Sorted ==
  ranking.ret =>
    \A i, j \in DOMAIN ranking.list :
      i < j =>
        LET a == ranking.list[i]
            b == ranking.list[j]
        IN \/ a.count > b.count
           \/ a.count = b.count /\ NumericStars(a) > NumericStars(b)
           \/ /\ a.count = b.count
              /\ NumericStars(a) = NumericStars(b)
              /\ FirstSeen(historyData, a.name) < FirstSeen(historyData, b.name)

\* A call has returned three items of one count: the first leads by its
\* stars, written with a comma, and the other two tie on both keys.
C4_Witness ==
  /\ ranking.ret
  /\ Len(ranking.list) >= 3
  /\ ranking.list[1].count = ranking.list[3].count
  /\ ranking.list[1].stars = Stars1200
  /\ ranking.list[2].stars = Stars900
  /\ ranking.list[3].stars = Stars900

\* a sorts strictly before b.
StrictlyBefore(a, b) ==
  \/ a.count > b.count
  \/ a.count = b.count /\ NumericStars(a) > NumericStars(b)

\* C5: the returned list holds min(maxItems, number of distinct valid names)
\* items, they are the leading items of the fully sorted list, and no
\* aggregate left out sorts strictly before one returned.
C5_TopN ==
  ranking.ret =>
    /\ Len(ranking.list)
         = Min(maxItems, Cardinality(HistoryNames(historyData)))
    /\ \A i \in DOMAIN ranking.list : ranking.list[i] = SortRanking(repoMap)[i]
    /\ \A k \in DOMAIN repoMap :
         (\A i \in DOMAIN ranking.list : ranking.list[i].name # repoMap[k].name)
           => \A i \in DOMAIN ranking.list :
                ~StrictlyBefore(repoMap[k], ranking.list[i])

\* A call has returned maxItems items out of more aggregates.
C5_Witness ==
  /\ ranking.ret
  /\ Len(repoMap) > maxItems
  /\ Len(ranking.list) = maxItems

\* C6: a second call on the same argument returns what the first returned.
C6_SecondRunIdentical ==
  (ranking.ret /\ prevRanking.ret /\ prevHistory = historyData)
    => ranking = prevRanking

\* Two calls have returned, on an argument that ranks two entities.
C6_Witness ==
  /\ ranking.ret
  /\ prevRanking.ret
  /\ prevHistory = historyData
  /\ Len(ranking.list) = 2

-----------------------------------------------------------------------------
(* What the claims about the resolver speak of.                            *)

\* The curated text for name: under its full name, else under its short name
\* when it has an owner prefix; <<>> when the index has neither.
CuratedFor(name) ==
  IF ObjGet(projectSummariesCache, ToLowerCase(name)) # <<>>
  THEN ObjGet(projectSummariesCache, ToLowerCase(name))
  ELSE IF HasSlash(name)
  THEN ObjGet(projectSummariesCache, ToLowerCase(LastPart(name)))
  ELSE <<>>

CachedFor(name) == ObjGet(translationCache, ToLowerCase(name))

\* The description with every keyword of the table replaced.
KeywordText(desc) == ApplyKeywords(desc, desc, KeywordMap)

\* Keyword substitution applies to desc and changes it.
Substituted(desc) ==
  desc # <<>> /\ TextLength(desc) < KeywordMaxLen /\ KeywordText(desc) # desc

\* What the chain below the curated lookup and the cache gives: the keyword
\* text, else the marked description when it is longer than MarkerMinLen,
\* else the raw description (the placeholder for an empty one).
Uncurated(desc) ==
  IF Substituted(desc) THEN KeywordText(desc)
  ELSE IF TextLength(desc) > MarkerMinLen THEN <<Marker>> \o desc
  ELSE IF desc # <<>> THEN desc
  ELSE Placeholder

-----------------------------------------------------------------------------
(* What the claims about the build speak of.                                *)

Windows == <<week, month, quarter>>

\* The files of the window of `days` days that list the entity `name`.
FilesListing(name, days) ==
  {f \in files : /\ InWindow(f.day, days)
                 /\ f.parses /\ f.isArray
                 /\ \E i \in DOMAIN f.items : f.items[i].name = name}

MostRecentListing(name, days) ==
  CHOOSE f \in FilesListing(name, days) :
    \A g \in FilesListing(name, days) : g.day <= f.day

StarsIn(f, name) ==
  LET i == CHOOSE j \in DOMAIN f.items : f.items[j].name = name
  IN f.items[i].stars

\* C3 (as claimed): in the reader-then-aggregator pipeline every ranked entity
\* carries the stars of its most recent day in the window; for the two days of
\* the example, a/x carries "1,300".
C3_StarsOfMostRecentDay ==
  \A w \in DOMAIN rankings : \A i \in DOMAIN rankings[w] :
    rankings[w][i].stars = StarsIn(MostRecentListing(rankings[w][i].name, Windows[w]),
                                   rankings[w][i].name)

BuildOrder == <<"load", "read", "rank", "resolve", "saveCache", "writePayload">>

IsPrefix(s, t) == Len(s) <= Len(t) /\ s = SubSeq(t, 1, Len(s))

\* C8: the steps of a build run in the order load, read and rank, resolve,
\* save the cache, write the payload, each once; the cache file changes only
\* in the save step, after the resolution, to the whole cache; the payload
\* file changes only in the last step, to the three resolved lists.
C8_StepOrder ==
  [][ /\ IsPrefix(events', BuildOrder)
      /\ cacheFile' # cacheFile =>
           /\ events' = SubSeq(BuildOrder, 1, 5)
           /\ cacheFile' = JsonFile(translationCache)
      /\ payloadFile' # payloadFile =>
           /\ events' = BuildOrder
           /\ payloadFile' = JsonFile(rankings)
           /\ \A w \in DOMAIN rankings : \A i \in DOMAIN rankings[w] :
                "detailedDesc" \in DOMAIN rankings[w][i] ]_vars

\* A build has run to its end, written both files, and had items to resolve.
C8_Witness ==
  /\ pc = "idle"
  /\ events = BuildOrder
  /\ cacheFile = JsonFile(translationCache)
  /\ payloadFile = JsonFile(rankings)
  /\ Len(rankings) = 3 /\ rankings[1] # <<>>
  /\ translationCache # EmptyObject

BuildEnded == pc = "idle" /\ builds > 0

\* C9 (as claimed): a build in which a write failed ends by throwing.
C9_WriteFailureRaised ==
  (BuildEnded /\ writeErrors # {}) => outcome.how = "threw"

\* C9 (amended): a build in which a write failed logs the failure and returns
\* its three lists as if nothing had happened.
C9_WriteFailureSwallowed ==
  (BuildEnded /\ writeErrors # {}) =>
    /\ outcome = [how |-> "returned", result |-> rankings]
    /\ "cache" \in writeErrors <=> "warn: save cache" \in Range(logs)
    /\ "payload" \in writeErrors <=> "error: write payload" \in Range(logs)

\* Both writes of a build failed, and the build had something to return.
C9_Witness ==
  /\ BuildEnded
  /\ writeErrors = {"cache", "payload"}
  /\ outcome.how = "returned"
  /\ outcome.result[1] # <<>>
  /\ payloadFile = MissingFile

-----------------------------------------------------------------------------
(* What the claims about the enrichment speak of.                           *)

LinesAt(level) == SelectSeq(aiCall.log, LAMBDA l : l.level = level)

\* C12: one call of translateWithOpenAI makes at most 2 attempts; every
\* failed attempt (error or timeout) has its warning, numbered 1, 2 in order,
\* and is followed by the next attempt while one is left; after a success no
\* attempt follows; and after two failures the promise is resolved, to null.
C12_AtMostTwoAttempts ==
  LET failed == Len(LinesAt("warn"))
  IN /\ aiCall.requests <= 2
     /\ \A n \in 1..failed :
          LinesAt("warn")[n].attempt = n /\ LinesAt("warn")[n].of = 2
     /\ aiCall.status = "attempting" => aiCall.requests = failed + 1
     /\ aiCall.status = "resolved" =>
          \/ aiCall.requests = failed + 1
          \/ failed = 2 /\ aiCall.requests = 2 /\ aiCall.result = <<>>
     /\ aiCall.status \in {"none", "attempting", "resolved"}

\* The first attempt timed out, the second was rejected, and the promise is
\* resolved to null.
C12_Witness ==
  /\ aiCall.status = "resolved"
  /\ aiCall.result = <<>>
  /\ Len(LinesAt("warn")) = 2
  /\ LinesAt("warn")[1].message = "Timeout"
  /\ LinesAt("warn")[2].message # "Timeout"
  /\ Len(LinesAt("error")) = 1

\* C13 (as claimed): the payload a build writes holds the lists as that build
\* resolved them, and a result a callback wrote into the cache after a build
\* persisted its cache is in the cache the next build resolves with.
C13_EnrichmentBenefitsNextBuild ==
  [][ /\ payloadFile' # payloadFile => payloadFile' = JsonFile(rankings)
      /\ (pc = "idle" /\ pc' # "idle" /\ builds > 0 /\ "cache" \notin writeErrors)
           => \A k \in DOMAIN translationCache :
                translationCache[k] \in {AiText, AiTextAgain}
                  => ObjGet(translationCache', k) = translationCache[k] ]_vars

-----------------------------------------------------------------------------
(* What the claims about readHistoryData speak of.                          *)

HasRead == readDays # 0

\* C14: a read skips the files that do not parse and goes on: what it returns,
\* and the ranking of it, are those of the same directory without these
\* files; and without a data directory it returns the empty sequence.
C14_CorruptFileSkipped ==
  HasRead =>
    /\ dataDir => historyData = ReadFiles({f \in files : f.parses}, readDays)
    /\ dataDir => RankingOf(historyData)
                    = RankingOf(ReadFiles(files \ {FileCorrupt}, readDays))
    /\ ~dataDir => historyData = <<>>
    /\ ranking.ret /\ prevHistory = historyData
         => ranking.list = RankingOf(ReadFiles(files \ {FileCorrupt}, readDays))

\* The week was read from a directory with the corrupt file between two valid
\* files of the window, and ranked.
C14_Witness ==
  /\ readDays = week
  /\ {FileDay1, FileDay2, FileOld, FileCorrupt} \subseteq files
  /\ Len(historyData) >= 2
  /\ ranking.ret /\ prevHistory = historyData
  /\ Len(ranking.list) = 2

\* Instants in half days: the midnight that opens day d, and now.
MidnightOf(d) == 2 * d
NowInstant == 2 * now.day + (IF now.pastMidnight THEN 1 ELSE 0)

ReturnedDays == {historyData[i].date : i \in DOMAIN historyData}

\* C15: a read returns one snapshot for each file that parses and whose date
\* d (the midnight that opens it) has now - days <= d <= now, both bounds
\* included, none for a file of a later day or of an invalid date, and
\* returns them by day-key, newest first.
C15_WindowInclusiveNewestFirst ==
  (HasRead /\ dataDir) =>
    /\ ReturnedDays =
         {f.day : f \in {g \in files :
            /\ g.validDate /\ g.parses
            /\ NowInstant - MidnightOf(readDays) <= MidnightOf(g.day)
            /\ MidnightOf(g.day) <= NowInstant}}
    /\ \A i, j \in DOMAIN historyData :
         i < j => historyData[i].date > historyData[j].date

\* Read at midnight sharp, the week holds the file of the day it opens and
\* the file of today, and neither the file of tomorrow nor the misdated one.
C15_Witness ==
  /\ readDays = week
  /\ ~now.pastMidnight
  /\ {FileDay2, FileOld, FileFuture, FileMisdated, FileMonth} \subseteq files
  /\ ReturnedDays = {100, 93}

-----------------------------------------------------------------------------
(* More of what the claims about calculateRanking speak of.                 *)

\* Two items that differ, if at all, in their stars and in the order of
\* their dates.
SameButStars(a, b) ==
  /\ a.name = b.name
  /\ a.url = b.url
  /\ a.description = b.description
  /\ a.count = b.count
  /\ Range(a.dates) = Range(b.dates)

\* C16 (as claimed): the call on any permutation of the argument returns the
\* same items in the same order, equal in name, url, description, count and
\* set of dates.
C16_SameForEveryPermutation ==
  ranking.ret =>
    \A f \in Orderings(Len(historyData)) :
      LET other == RankingOf(Permuted(historyData, f))
      IN /\ Len(other) = Len(ranking.list)
         /\ \A i \in DOMAIN other : SameButStars(other[i], ranking.list[i])

\* The digits of a string, every other character removed.
RECURSIVE DigitsOnly(_)
DigitsOnly(chars) ==
  IF chars = <<>> THEN <<>>
  ELSE (IF IsDigit(Head(chars)) THEN <<Head(chars)>> ELSE <<>>)
         \o DigitsOnly(Tail(chars))

\* The integer the stars of an item denote; zero without digits.
DenotedStars(info) ==
  IF info.stars.t = "str" THEN DigitsValue(DigitsOnly(info.stars.v)) ELSE 0

\* C17 (as claimed): the second sort key of an item is the integer its stars
\* denote with every separator removed, so of two neighbours of equal count
\* the first denotes no less than the second.
C17_EverySeparatorRemoved ==
  ranking.ret =>
    /\ \A i \in DOMAIN ranking.list :
         NumericStars(ranking.list[i]) = DenotedStars(ranking.list[i])
    /\ \A i \in 1..(Len(ranking.list) - 1) :
         ranking.list[i].count = ranking.list[i + 1].count
           => DenotedStars(ranking.list[i]) >= DenotedStars(ranking.list[i + 1])

-----------------------------------------------------------------------------
(* What the claims about the resolution inside a build speak of.            *)

\* The items of the three lists, once resolved.
ResolvedItems ==
  IF "resolve" \in Range(events)
  THEN UNION {Range(rankings[w]) : w \in DOMAIN rankings}
  ELSE {}

\* The keys of `cache` under which it holds the curated text of the key.
CuratedKeysIn(cache) ==
  {k \in DOMAIN cache \cap DOMAIN projectSummariesCache :
     cache[k] = projectSummariesCache[k]}

C19_FallbackValueCached ==
  \A item \in ResolvedItems :
    (CuratedFor(item.name) = <<>> /\ item.description # <<>>
       /\ SimpleTranslate(item.description) # item.description)
      => /\ CachedFor(item.name) # <<>>
         /\ (BuildEnded /\ "cache" \notin writeErrors)
              => ObjGet(cacheFile.content, ToLowerCase(item.name)) # <<>>

\* The cache with `value` under `key`, whatever it held there.
Overwritten(cache, key, value) ==
  [k \in DOMAIN cache \cup {key} |-> IF k = key THEN value ELSE cache[k]]

\* C20: when a request settles with a text, the translation cache holds that
\* text under the lower-cased name of the request's entity, in place of any
\* value it held there, and is otherwise as before; when it settles without
\* one, the cache is as before.
C20_CallbackOverwrites ==
  [][ Len(pending') < Len(pending) =>
        IF lastCall'.value # <<>>
        THEN translationCache' =
               Overwritten(translationCache, ToLowerCase(lastCall'.name),
                           lastCall'.value)
        ELSE translationCache' = translationCache ]_vars

\* Of three requests for a/x two have settled, the last of them with a text,
\* which the cache holds.
C20_Witness ==
  /\ lastCall.fn = "then"
  /\ lastCall.name = NameAX
  /\ lastCall.value = AiTextAgain
  /\ CachedFor(NameAX) = AiTextAgain
  /\ Len(pending) = 1

-----------------------------------------------------------------------------
(* What the claims about getDetailedDescription speak of.                   *)

\* The step is a call of getDetailedDescription.
DetailStep == lastCall.fn = "none" /\ lastCall'.fn = "getDetailedDescription"

\* What the display chain gives for the call.
ChainValue(call) ==
  IF CuratedFor(call.name) # <<>> THEN CuratedFor(call.name)
  ELSE Uncurated(call.description)

\* C21 (as claimed): the call returns the chain's value when it differs from
\* the raw description; else the cached value when the cache has an entry for
\* the lower-cased name; else the raw description, the placeholder for an
\* empty one; and the requests it dispatches are pending when it returns.
C21_DetailChainCacheRaw ==
  [][ DetailStep =>
        /\ lastCall'.value =
             IF ChainValue(lastCall') # lastCall'.description
             THEN ChainValue(lastCall')
             ELSE IF CachedFor(lastCall'.name) # <<>>
             THEN CachedFor(lastCall'.name)
             ELSE IF lastCall'.description # <<>> THEN lastCall'.description
             ELSE Placeholder
        /\ IsPrefix(pending, pending') ]_vars

\* C21 (amended): as above, but when the chain gives the raw description and
\* the cache has no entry, the call returns the description with its keywords
\* replaced, or marked, when that differs from it, and the raw description
\* only when it does not.
C21_DetailChainCacheKeywordsRaw ==
  [][ DetailStep =>
        /\ lastCall'.value =
             IF ChainValue(lastCall') # lastCall'.description
             THEN ChainValue(lastCall')
             ELSE IF CachedFor(lastCall'.name) # <<>>
             THEN CachedFor(lastCall'.name)
             ELSE Uncurated(lastCall'.description)
        /\ IsPrefix(pending, pending') ]_vars

\* A call for a/x, whose curated summary repeats its raw description, has
\* returned the description with its keyword replaced.
C21_Witness ==
  /\ lastCall.fn = "getDetailedDescription"
  /\ lastCall.name = NameAX
  /\ CuratedFor(NameAX) = lastCall.description
  /\ lastCall.description = <<"pad18", "tool">>
  /\ lastCall.value = <<"pad18", "zh_tool">>

\* C22: on an empty curated index the lookup hits for no name, under the full
\* key or the short one, and getChineseSummary returns what the description
\* alone gives.
C22_EmptyIndexNeverHits ==
  (lastCall.fn = "getChineseSummary" /\ projectSummariesCache = EmptyObject)
    => /\ CuratedFor(lastCall.name) = <<>>
       /\ lastCall.value = Uncurated(lastCall.description)

-----------------------------------------------------------------------------
(* What the claims about one build's steps speak of.                        *)

\* The keys whose cache entry the step sets or changes.
KeysWritten ==
  {k \in DOMAIN translationCache' :
     k \notin DOMAIN translationCache \/ translationCache'[k] # translationCache[k]}

\* The lower-cased names of the items the build has ranked.
RankedKeys ==
  {ToLowerCase(rankings[w][i].name) : <<w, i>> \in
     {<<w, i>> \in (DOMAIN rankings) \X (1..maxItems) : i <= Len(rankings[w])}}

\* C23: from the load of the cache to its persisting, the cache is written
\* only by the build's resolution step, under the keys of the items it has
\* ranked; no enrichment callback runs (no request leaves the pending ones,
\* no callback is recorded); and the rank step is the three window
\* computations, one after the other, on the files as they are.
C23_BuildRunsToCompletion ==
  [][ (pc \in {"rank", "resolve"}) =>
        /\ (KeysWritten # {}) => (pc = "resolve" /\ KeysWritten \subseteq RankedKeys)
        /\ IsPrefix(pending, pending')
        /\ lastCall' = lastCall
        /\ (pc = "rank" /\ pc' # "idle") =>
             (files' = files /\ \A w \in DOMAIN Windows :
                rankings'[w] = RankingOf(ReadHistoryData(Windows[w])))
    ]_vars

\* A second build is about to persist a cache its resolution has written,
\* while requests of the first build have not settled.
C23_Witness ==
  /\ builds = 2
  /\ pc = "saveCache"
  /\ translationCache # LoadTranslationCache
  /\ \E i \in DOMAIN pending : ObjGet(translationCache, pending[i].key) = <<>>

-----------------------------------------------------------------------------
(* What the claims about malformed entries and aggregates speak of.         *)

\* C24: a call of calculateRanking on a history with a malformed entry (a
\* null element, an entry without a name, stars that are no string) returns,
\* and its list has the named entities of the history.
C24_MalformedEntryTolerated ==
  (ranking # NoCall /\ prevHistory = historyData) =>
    /\ ranking.ret
    /\ Cardinality(HistoryNames(historyData)) <= maxItems =>
         HistoryNames(historyData) = {ranking.list[i].name : i \in DOMAIN ranking.list}

\* The entries of the history in the order the two loops visit them, each
\* with the day-key of its snapshot; the entries the inner loop skips are
\* left out.
RECURSIVE FoldSteps(_)
FoldSteps(history) ==
  IF history = <<>> THEN <<>>
  ELSE LET h == Head(history)
           here == IF h.data.isArray
                   THEN SelectSeq(h.data.items,
                                  LAMBDA e : e.kind = "obj" /\ e.name # <<>>)
                   ELSE <<>>
       IN [i \in DOMAIN here |-> [date |-> h.date, repo |-> here[i]]]
            \o FoldSteps(Tail(history))

\* The Map after the steps.
RECURSIVE MapAfter(_)
MapAfter(steps) ==
  IF steps = <<>> THEN NewRepoMap
  ELSE FoldRepo(MapAfter(SubSeq(steps, 1, Len(steps) - 1)),
                steps[Len(steps)].date, steps[Len(steps)].repo)

\* The day-keys under which the steps hold the entity.
DatesOf(steps, name) ==
  {steps[k].date : k \in {j \in DOMAIN steps : steps[j].repo.name = name}}

AggregateOk(info, steps) ==
  /\ info.count >= 1
  /\ Cardinality(Range(info.dates)) = Len(info.dates)
  /\ Range(info.dates) \subseteq DatesOf(steps, info.name)
  /\ Len(info.dates) <= info.count

MapOk(map, steps) == \A i \in DOMAIN map : AggregateOk(map[i], steps)

\* C25: after every step of the fold, and in the list returned, an aggregate
\* has a count of at least 1, day-keys without duplicates, each of them the
\* day-key of a snapshot processed so far that holds the entity, and no more
\* day-keys than its count.
C25_AggregateInvariants ==
  (ranking # NoCall /\ prevHistory = historyData) =>
    /\ \A k \in 0..Len(FoldSteps(historyData)) :
         MapOk(MapAfter(SubSeq(FoldSteps(historyData), 1, k)),
               SubSeq(FoldSteps(historyData), 1, k))
    /\ repoMap = MapAfter(FoldSteps(historyData))
    /\ MapOk(ranking.list, FoldSteps(historyData))

\* Two snapshots of the same day hold a/x: its count is 2 and the day is
\* recorded once.
C25_Witness ==
  /\ ranking.ret /\ prevHistory = historyData
  /\ Len(historyData) = 2
  /\ historyData[1].date = historyData[2].date
  /\ SnapshotHas(historyData[1], NameAX) /\ SnapshotHas(historyData[2], NameAX)
  /\ \E i \in DOMAIN ranking.list :
       /\ ranking.list[i].name = NameAX
       /\ ranking.list[i].count = 2
       /\ ranking.list[i].dates = <<historyData[1].date>>

-----------------------------------------------------------------------------
(* What the claims about the three windows of a build speak of.             *)

\* The count of the entity in the list, 0 when the list does not have it.
CountInList(list, name) ==
  IF \E i \in DOMAIN list : list[i].name = name
  THEN list[CHOOSE i \in DOMAIN list : list[i].name = name].count
  ELSE 0

\* The entity is in both lists.
InBoth(l1, l2, name) == CountInList(l1, name) > 0 /\ CountInList(l2, name) > 0

\* C26: in a build, the snapshots read for the week are among those read for
\* the month, and these among those read for the quarter; an entity that is in
\* two of the rankings has in the shorter window a count no greater than in
\* the longer one.
C26_WindowsNested ==
  (Len(rankings) = 3) =>
    /\ Range(ReadHistoryData(week)) \subseteq Range(ReadHistoryData(month))
    /\ Range(ReadHistoryData(month)) \subseteq Range(ReadHistoryData(quarter))
    /\ \A v, w \in DOMAIN rankings : \A n \in {NameAX, NameBY} :
         (v < w /\ InBoth(rankings[v], rankings[w], n)) =>
           CountInList(rankings[v], n) <= CountInList(rankings[w], n)

\* A build has ranked a/x with two occurrences in the week and three in the
\* month, the file of the day the week opens being outside the week's window.
C26_Witness ==
  /\ Len(rankings) = 3
  /\ CountInList(rankings[1], NameAX) = 2
  /\ CountInList(rankings[2], NameAX) = 3
  /\ Len(ReadHistoryData(week)) = 2 /\ Len(ReadHistoryData(month)) = 3

\* The requests the step dispatches.
Dispatched == SubSeq(pending', Len(pending) + 1, Len(pending'))

\* C27: a call of getDetailedDescription dispatches a request only when
\* enrichment is enabled with an API key, the cache has no entry for the
\* entity, and the description is non-empty, at most 20 characters long and
\* unchanged by keyword substitution; it then dispatches one, under the
\* lower-cased name.  For a description longer than 20 characters and no
\* curated entry the value returned differs from the raw description, the
\* cache is left as it was and nothing is dispatched.
C27_DispatchOnlyForShortPlain ==
  [][ DetailStep =>
        /\ (Dispatched # <<>>) =>
             /\ openai.enabled /\ openai.apiKey
             /\ CachedFor(lastCall'.name) = <<>>
             /\ lastCall'.description # <<>>
             /\ TextLength(lastCall'.description) <= MarkerMinLen
             /\ ~Substituted(lastCall'.description)
             /\ Dispatched = <<[key |-> ToLowerCase(lastCall'.name),
                               name |-> lastCall'.name,
                               text |-> lastCall'.description]>>
        /\ (TextLength(lastCall'.description) > MarkerMinLen
              /\ CuratedFor(lastCall'.name) = <<>>) =>
             /\ lastCall'.value # lastCall'.description
             /\ translationCache' = translationCache
             /\ Dispatched = <<>>
    ]_vars

\* A call for A/X, with a short description no keyword changes, has
\* dispatched a request under a/x and returned the raw description.
C27_Witness ==
  /\ lastCall.fn = "getDetailedDescription"
  /\ lastCall.name = NameUpperAX
  /\ lastCall.value = lastCall.description
  /\ pending = <<[key |-> NameAX, name |-> NameUpperAX, text |-> lastCall.description]>>

=============================================================================
